---------------------------- MODULE Spec2Model ----------------------------
(***************************************************************************)
(* Model of the Studio Velocity automation (src/automation.py) and of its  *)
(* Telegram notifier (src/telegram_notification.py).                       *)
(*                                                                         *)
(* The program is sequential.  Its state is the position of the running    *)
(* script (pc), the locals of the functions on the call stack, and the     *)
(* trace of the network calls it has issued.  The servers' answers, the    *)
(* command line and the environment are inputs, drawn where the code reads *)
(* them.                                                                   *)
(***************************************************************************)
EXTENDS Integers, Sequences, FiniteSets, TLC

VARIABLES
    entry,              \* what was called: a script's main, or one function alone
    pc,                 \* position in the running code
    outcome,            \* "none", or the exception that is propagating
    holidayCalendar,    \* the holidays library's data: year -> set of dates
    start_dt,           \* filter_events / classify_event_day: start_dt
    day_classification, \* filter_events: day_classification
    page,               \* fetch_schedule: index into pages
    aggregated_results, \* fetch_schedule: aggregated_results
    schedule,           \* main: schedule (raw_events of filter_events)
    idx,                \* filter_events: position of the for loop in raw_events
    filtered,           \* filter_events: filtered
    filtered_events,    \* main: filtered_events (schedule_events)
    evIdx,              \* collect_available_spots: position of the for loop
    payload,            \* collect_available_spots: payload (event_payload)
    spotIdx,            \* extract_available_spots: position of the for loop
    available_spots,    \* extract_available_spots: available_spots
    all_spots,          \* collect_available_spots: all_spots
    gets,               \* every session.get issued so far, in order
    posts,              \* every session.post issued so far, in order
    stdout,             \* what the script has printed
    sessionsAcquired,   \* requests.Session() objects created
    sessionsOpen,       \* of these, the ones not closed
    now,                \* the wall clock
    started_at,         \* run_automation: the start timestamp
    result,             \* telegram main: result of automation.run_automation()
    args                \* telegram main: dry_run and the resolved token, chat_id

vars == <<entry, pc, outcome, holidayCalendar, start_dt, day_classification,
          page, aggregated_results, schedule, idx, filtered, filtered_events,
          evIdx, payload, spotIdx, available_spots, all_spots, gets, posts,
          stdout, sessionsAcquired, sessionsOpen, now, started_at, result, args>>

None == "None"

\* An optional value of a local that holds a sequence once it is assigned.
Unset == [set |-> FALSE, val |-> <<>>]
Some(v) == [set |-> TRUE, val |-> v]

SeqsUpTo(S, n) == UNION {[1..k -> S] : k \in 0..n}

-----------------------------------------------------------------------------
(* Dates, times of day and the holiday calendar *)

Date(y, m, d) == [year |-> y, month |-> m, day |-> d]
Time(h, m, s) == [hour |-> h, minute |-> m, second |-> s]

IsLeap(y) == (y % 4 = 0) /\ ((y % 100 # 0) \/ (y % 400 = 0))

DaysInMonth(y, m) ==
    IF m = 2 THEN (IF IsLeap(y) THEN 29 ELSE 28)
    ELSE IF m \in {4, 6, 9, 11} THEN 30 ELSE 31

RECURSIVE DaysBeforeMonth(_, _)
DaysBeforeMonth(y, m) ==
    IF m = 1 THEN 0 ELSE DaysBeforeMonth(y, m - 1) + DaysInMonth(y, m - 1)

DaysBeforeYear(y) ==
    (y - 1) * 365 + ((y - 1) \div 4) - ((y - 1) \div 100) + ((y - 1) \div 400)

\* date.toordinal(): 0001-01-01 is day 1.
ToOrdinal(dt) == DaysBeforeYear(dt.year) + DaysBeforeMonth(dt.year, dt.month) + dt.day

\* date.weekday(): Monday is 0, Sunday is 6.
Weekday(dt) == (ToOrdinal(dt) + 6) % 7

Years == {2025, 2026}

\* holidays.country_holidays("BR", years={y}): the national holidays of Brazil.
BRHolidays ==
    [y \in Years |->
        {Date(y, 1, 1), Date(y, 4, 21), Date(y, 5, 1), Date(y, 9, 7),
         Date(y, 10, 12), Date(y, 11, 2), Date(y, 11, 15), Date(y, 11, 20),
         Date(y, 12, 25)}
        \cup (IF y = 2025 THEN {Date(2025, 4, 18)} ELSE {Date(2026, 4, 3)})]

\* classify_event_day with the weekend test before the holiday test.
classify_weekend_first(dt) ==
    IF Weekday(dt.date) >= 5 THEN "final_de_semana"
    ELSE IF dt.date \in holidayCalendar[dt.date.year] THEN "feriado"
    ELSE "dia_de_semana"

classify_event_day(dt) ==
    IF dt.date \in holidayCalendar[dt.date.year] THEN "feriado"
    ELSE IF Weekday(dt.date) >= 5 THEN "final_de_semana"
    ELSE "dia_de_semana"

-----------------------------------------------------------------------------
(* Raw schedule entries and filter_events *)

DefaultInstructorId == 525
EveningCutoffHour == 19

NoDate == Date(0, 0, 0)
NoTime == Time(0, 0, 0)
NoDatetime == [date |-> NoDate, time |-> NoTime]

\* The value of event.get("start_time"): the key absent, null, "", a text that
\* is no timestamp ("not-a-date"), or a text of the ISO 8601 form
\* YYYY-MM-DDTHH:MM:SS-03:00 whose fields may be out of range.
StartAbsent == [kind |-> "absent", date |-> NoDate, time |-> NoTime]
StartNull == [kind |-> "null", date |-> NoDate, time |-> NoTime]
StartEmpty == [kind |-> "empty", date |-> NoDate, time |-> NoTime]
StartText == [kind |-> "text", date |-> NoDate, time |-> NoTime]
StartIso(d, t) == [kind |-> "iso", date |-> d, time |-> t]

\* A raw schedule entry.  Every entry carries a token: line 161 reads
\* event["token"] where the other fields are read with .get.  The schedule
\* endpoint does not promise that two entries, of one page or of two, differ
\* in their tokens, and neither fetch_schedule nor filter_events compares them.
RawEntry(ins, closed, start, tok) ==
    [instructor |-> ins, closed_at |-> closed, start_time |-> start, token |-> tok]

\* Python's truth value of start_raw: None and "" are false.
Truthy(start_raw) == start_raw.kind \in {"text", "iso"}

ValidDate(d) ==
    /\ d.year \in 1..9999
    /\ d.month \in 1..12
    /\ d.day \in 1..DaysInMonth(d.year, d.month)

ValidTime(t) == t.hour \in 0..23 /\ t.minute \in 0..59 /\ t.second \in 0..59

\* _parse_start_time that accepts any text of the ISO form, fields unchecked.
parse_unchecked(start_raw) ==
    IF start_raw.kind = "iso"
    THEN [raised |-> FALSE, dt |-> [date |-> start_raw.date, time |-> start_raw.time]]
    ELSE [raised |-> TRUE, dt |-> NoDatetime]

\* _parse_start_time: datetime.fromisoformat, ValueError on anything else.  The
\* datetime keeps the text's own (local) date and time of day; the offset is
\* dropped by timetz().replace(tzinfo=None) before the comparison.
_parse_start_time(start_raw) ==
    IF start_raw.kind = "iso" /\ ValidDate(start_raw.date) /\ ValidTime(start_raw.time)
    THEN [raised |-> FALSE, dt |-> [date |-> start_raw.date, time |-> start_raw.time]]
    ELSE [raised |-> TRUE, dt |-> NoDatetime]

\* datetime.time's order: (hour, minute, second) compared in turn.
TimeLess(a, b) ==
    \/ a.hour < b.hour
    \/ a.hour = b.hour /\ a.minute < b.minute
    \/ a.hour = b.hour /\ a.minute = b.minute /\ a.second < b.second

TimeLE(a, b) == a = b \/ TimeLess(a, b)

evening_cutoff == Time(EveningCutoffHour, 0, 0)

ScheduleEvent(tok, dt) == [token |-> tok, start_time |-> dt]

\* The weekday rule with < in place of <=: 19:00:00 itself passes.
weekday_rule_lt(cls, dt) == cls = "dia_de_semana" /\ TimeLess(dt.time, evening_cutoff)

\* Line 157: the entry is dropped by the weekday rule.
weekday_rule(cls, dt) == cls = "dia_de_semana" /\ TimeLE(dt.time, evening_cutoff)

\* The two tests of lines 143-147 with the closed_at test left out.
passes_checks_no_closed(event, instructor_id) == event.instructor = instructor_id

\* Lines 143-147: the entry is the target instructor's and is not closed.
passes_checks(event, instructor_id) ==
    /\ event.instructor = instructor_id
    /\ event.closed_at = None

\* One iteration of the loop of filter_events (lines 142-161) on `event`:
\* what happens ("continue", "raise", "append") and the locals it sets.
filter_iteration(event, instructor_id) ==
    IF ~passes_checks(event, instructor_id)
    THEN [do |-> "continue", dt |-> start_dt, cls |-> day_classification]
    ELSE IF ~Truthy(event.start_time)
    THEN [do |-> "continue", dt |-> start_dt, cls |-> day_classification]
    ELSE LET parsed == _parse_start_time(event.start_time) IN
         IF parsed.raised
         THEN [do |-> "raise", dt |-> start_dt, cls |-> day_classification]
         ELSE LET cls == classify_event_day(parsed.dt) IN
              IF weekday_rule(cls, parsed.dt)
              THEN [do |-> "continue", dt |-> parsed.dt, cls |-> cls]
              ELSE [do |-> "append", dt |-> parsed.dt, cls |-> cls]

-----------------------------------------------------------------------------
(* Event details and extract_available_spots *)

\* A map spot: bookings absent, empty or holding a booking; maintenance absent,
\* false or true.
MapSpot(code, bookings, maintenance) ==
    [code |-> code, bookings |-> bookings, maintenance |-> maintenance]

EventDetail(tok, spots) == [token |-> tok, name |-> "Spinning", map_spots |-> spots]

\* Of the fields an AvailableSpot copies from the payload, the model carries the
\* token and the event name; event_hour, duration_time and the instructor's
\* fields are copied the same way and no spot depends on them.
AvailableSpot(event_payload, spot) ==
    [token |-> event_payload.token, spot_code |-> spot.code, event_name |-> event_payload.name]

\* Line 196 testing the bookings alone.
spot_taken_bookings_only(spot) == spot.bookings = "booked"

\* Line 196: bookings or maintenance (the defaults of lines 193-194 are false).
spot_taken(spot) == spot.bookings = "booked" \/ spot.maintenance = "true"

-----------------------------------------------------------------------------
(* Exceptions and the session *)

Scripts == {"automation", "telegram"}

\* Where a function called alone returns to, or the script goes on.
After(alone, next) == IF entry \in Scripts THEN next ELSE alone

\* run_automation releases its session on every exit path; automation.main has
\* no such scope (lines 232-238).
SessionsAfterUnwind ==
    IF entry = "telegram" /\ pc \in {"fetch_schedule", "filter", "collect", "extract"}
    THEN sessionsOpen - 1
    ELSE sessionsOpen

\* The exception recorded and the loop going on with its next element.
abort_and_continue(exc) ==
    /\ pc' = pc
    /\ outcome' = exc
    /\ sessionsOpen' = sessionsOpen

\* An exception raised here propagates to the top: nothing catches it.
Abort(exc) ==
    /\ pc' = "aborted"
    /\ outcome' = exc
    /\ sessionsOpen' = SessionsAfterUnwind

Proceed(next) ==
    /\ pc' = next
    /\ UNCHANGED <<outcome, sessionsOpen>>

-----------------------------------------------------------------------------
(* classify_event_day called alone, on any date of a week that spans the   *)
(* turn of the year, under any holiday calendar over that week.            *)

ClassifyDates ==
    {Date(2025, 12, 29), Date(2025, 12, 30), Date(2025, 12, 31),
     Date(2026, 1, 1), Date(2026, 1, 2), Date(2026, 1, 3), Date(2026, 1, 4)}

ClassifyTimes == {Time(10, 0, 0), Time(19, 0, 0)}

DatesOfYear(y) == {d \in ClassifyDates : d.year = y}

Calendars ==
    {c \in [Years -> SUBSET ClassifyDates] : \A y \in Years : c[y] \subseteq DatesOfYear(y)}

NoResult ==
    [set |-> FALSE, spots |-> <<>>, started_at |-> 0, finished_at |-> 0,
     elapsed_seconds |-> 0]

NoArgs == [set |-> FALSE, dry_run |-> FALSE, token |-> None, chat_id |-> None]

\* Everything a run has not touched yet (start_dt, schedule and payload are
\* the arguments of the functions that can be called alone).
Idle ==
    /\ outcome = "none"
    /\ day_classification = None
    /\ page = 0
    /\ aggregated_results = <<>>
    /\ idx = 0
    /\ filtered = <<>>
    /\ filtered_events = Unset
    /\ evIdx = 0
    /\ spotIdx = 0
    /\ available_spots = <<>>
    /\ all_spots = <<>>
    /\ gets = <<>>
    /\ posts = <<>>
    /\ stdout = <<>>
    /\ sessionsAcquired = 0
    /\ sessionsOpen = 0
    /\ now = 0
    /\ started_at = 0
    /\ result = NoResult
    /\ args = NoArgs

InitClassify ==
    /\ entry = "classify_event_day"
    /\ pc = "classify"
    /\ holidayCalendar \in Calendars
    /\ start_dt \in [date : ClassifyDates, time : ClassifyTimes]
    /\ schedule = Unset
    /\ payload = Unset
    /\ Idle

\* classify_event_day(start_dt), the value returned
Classify ==
    /\ entry = "classify_event_day"
    /\ pc = "classify"
    /\ day_classification' = classify_event_day(start_dt)
    /\ pc' = "done"
    /\ UNCHANGED <<entry, outcome, holidayCalendar, start_dt, page,
                   aggregated_results, schedule, idx, filtered, filtered_events,
                   evIdx, payload, spotIdx, available_spots, all_spots, gets,
                   posts, stdout, sessionsAcquired, sessionsOpen, now, started_at,
                   result, args>>

NextClassify == Classify

SpecClassify == InitClassify /\ [][NextClassify]_vars

-----------------------------------------------------------------------------
(* filter_events (lines 132-163) *)

\* for event in raw_events: one iteration.  In a script a raise ends the run.
FilterStep ==
    /\ pc = "filter"
    /\ idx < Len(schedule.val)
    /\ LET it == filter_iteration(schedule.val[idx + 1], DefaultInstructorId) IN
        /\ idx' = idx + 1
        /\ start_dt' = it.dt
        /\ day_classification' = it.cls
        /\ filtered' =
              IF it.do = "append"
              THEN Append(filtered, ScheduleEvent(schedule.val[idx + 1].token, it.dt))
              ELSE filtered
        /\ IF it.do = "raise" THEN Abort("ValueError") ELSE Proceed("filter")
    /\ UNCHANGED <<entry, holidayCalendar, page, aggregated_results, schedule,
                   filtered_events, evIdx, payload, spotIdx, available_spots,
                   all_spots, gets, posts, stdout, sessionsAcquired, now,
                   started_at, result, args>>

\* return filtered
FilterReturn ==
    /\ pc = "filter"
    /\ idx = Len(schedule.val)
    /\ filtered_events' = Some(filtered)
    /\ pc' = After("done", "collect")
    /\ UNCHANGED <<entry, outcome, holidayCalendar, start_dt, day_classification,
                   page, aggregated_results, schedule, idx, filtered, evIdx,
                   payload, spotIdx, available_spots, all_spots, gets, posts,
                   stdout, sessionsAcquired, sessionsOpen, now, started_at,
                   result, args>>

-----------------------------------------------------------------------------
(* extract_available_spots (lines 175-212) *)

\* for spot in event_payload.get("map_spots", []): one iteration
ExtractStep ==
    /\ pc = "extract"
    /\ spotIdx < Len(payload.val.map_spots)
    /\ LET spot == payload.val.map_spots[spotIdx + 1] IN
        /\ spotIdx' = spotIdx + 1
        /\ available_spots' =
              IF spot_taken(spot)
              THEN available_spots
              ELSE Append(available_spots, AvailableSpot(payload.val, spot))
    /\ UNCHANGED <<entry, pc, outcome, holidayCalendar, start_dt,
                   day_classification, page, aggregated_results, schedule, idx,
                   filtered, filtered_events, evIdx, payload, all_spots, gets,
                   posts, stdout, sessionsAcquired, sessionsOpen, now,
                   started_at, result, args>>

\* return available_spots; in collect_available_spots, all_spots.extend(...)
ExtractReturn ==
    /\ pc = "extract"
    /\ spotIdx = Len(payload.val.map_spots)
    /\ all_spots' = IF entry \in Scripts THEN all_spots \o available_spots ELSE all_spots
    /\ pc' = After("done", "collect")
    /\ UNCHANGED <<entry, outcome, holidayCalendar, start_dt, day_classification,
                   page, aggregated_results, schedule, idx, filtered,
                   filtered_events, evIdx, payload, spotIdx, available_spots,
                   gets, posts, stdout, sessionsAcquired, sessionsOpen, now,
                   started_at, result, args>>

-----------------------------------------------------------------------------
(* fetch_schedule (lines 63-107) *)

Pages == <<1, 2>>

\* A session.get as the trace records it: the endpoint, the page or token
\* asked for, the time of the call and the status of the answer.
Get(url, key, status) == [url |-> url, key |-> key, at |-> now + 1, status |-> status]

\* What the schedule endpoint may answer: a non-success status, a body whose
\* "results" is no list, or a page of entries.
ScheduleResponses(entries, n) ==
    {[status |-> "error", results |-> <<>>], [status |-> "malformed", results |-> <<>>]}
    \cup {[status |-> "ok", results |-> r] : r \in SeqsUpTo(entries, n)}

\* for page in pages: session.get, raise_for_status, extend (lines 89-105).
\* The query parameters (the date window, the fixed identifiers) select what
\* the server answers; the answer is an input here.
FetchPage(responses) ==
    /\ pc = "fetch_schedule"
    /\ page < Len(Pages)
    /\ page' = page + 1
    /\ now' = now + 1
    /\ \E resp \in responses :
        /\ gets' = Append(gets, Get("schedule", Pages[page + 1], resp.status))
        /\ CASE resp.status = "error" ->
                   /\ Abort("HTTPError")
                   /\ UNCHANGED aggregated_results
             [] resp.status = "malformed" ->
                   /\ Abort("TypeError")
                   /\ UNCHANGED aggregated_results
             [] OTHER ->
                   /\ Proceed("fetch_schedule")
                   /\ aggregated_results' = aggregated_results \o resp.results
    /\ UNCHANGED <<entry, holidayCalendar, start_dt, day_classification, schedule,
                   idx, filtered, filtered_events, evIdx, payload, spotIdx,
                   available_spots, all_spots, posts, stdout, sessionsAcquired,
                   started_at, result, args>>

\* return aggregated_results, assigned to schedule (line 234)
FetchReturn ==
    /\ pc = "fetch_schedule"
    /\ page = Len(Pages)
    /\ schedule' = Some(aggregated_results)
    /\ pc' = "filter"
    /\ UNCHANGED <<entry, outcome, holidayCalendar, start_dt, day_classification,
                   page, aggregated_results, idx, filtered, filtered_events,
                   evIdx, payload, spotIdx, available_spots, all_spots, gets,
                   posts, stdout, sessionsAcquired, sessionsOpen, now,
                   started_at, result, args>>

-----------------------------------------------------------------------------
(* collect_available_spots and fetch_event_details (lines 166-172, 215-226) *)

\* What the event endpoint may answer for a token: a non-success status, or
\* the event's detail.
DetailResponses(tok, spots, n) ==
    {[status |-> "error", body |-> EventDetail(tok, <<>>)]}
    \cup {[status |-> "ok", body |-> EventDetail(tok, m)] : m \in SeqsUpTo(spots, n)}

\* The token of the event the loop of collect_available_spots takes next, and
\* the same loop taking the first event again.
next_token_first == filtered_events.val[1].token

\* schedule_event.token of line 223
next_token == filtered_events.val[evIdx + 1].token

\* for schedule_event in schedule_events: fetch_event_details (lines 222-223)
CollectFetch(spots, n) ==
    /\ pc = "collect"
    /\ evIdx < Len(filtered_events.val)
    /\ evIdx' = evIdx + 1
    /\ now' = now + 1
    /\ \E resp \in DetailResponses(next_token, spots, n) :
        /\ gets' = Append(gets, Get("event", next_token, resp.status))
        /\ IF resp.status = "error"
           THEN /\ Abort("HTTPError")
                /\ UNCHANGED <<payload, spotIdx, available_spots>>
           ELSE /\ Proceed("extract")
                /\ payload' = Some(resp.body)
                /\ spotIdx' = 0
                /\ available_spots' = <<>>
    /\ UNCHANGED <<entry, holidayCalendar, start_dt, day_classification, page,
                   aggregated_results, schedule, idx, filtered, filtered_events,
                   all_spots, posts, stdout, sessionsAcquired, started_at,
                   result, args>>

\* return all_spots (line 226)
CollectReturn ==
    /\ pc = "collect"
    /\ evIdx = Len(filtered_events.val)
    /\ pc' = "collected"
    /\ UNCHANGED <<entry, outcome, holidayCalendar, start_dt, day_classification,
                   page, aggregated_results, schedule, idx, filtered,
                   filtered_events, evIdx, payload, spotIdx, available_spots,
                   all_spots, gets, posts, stdout, sessionsAcquired,
                   sessionsOpen, now, started_at, result, args>>

-----------------------------------------------------------------------------
(* automation.main (lines 229-238) *)

Line(kind, spots) == [kind |-> kind, spots |-> spots]

\* session = requests.Session() (line 232)
MainStart ==
    /\ entry = "automation"
    /\ pc = "start"
    /\ sessionsAcquired' = sessionsAcquired + 1
    /\ sessionsOpen' = sessionsOpen + 1
    /\ pc' = "fetch_schedule"
    /\ UNCHANGED <<entry, outcome, holidayCalendar, start_dt, day_classification,
                   page, aggregated_results, schedule, idx, filtered,
                   filtered_events, evIdx, payload, spotIdx, available_spots,
                   all_spots, gets, posts, stdout, now, started_at, result, args>>

\* print(json.dumps(available_spots, ...)) (line 238); the session is left open
MainPrint ==
    /\ entry = "automation"
    /\ pc = "collected"
    /\ stdout' = Append(stdout, Line("json", all_spots))
    /\ pc' = "done"
    /\ UNCHANGED <<entry, outcome, holidayCalendar, start_dt, day_classification,
                   page, aggregated_results, schedule, idx, filtered,
                   filtered_events, evIdx, payload, spotIdx, available_spots,
                   all_spots, gets, posts, sessionsAcquired, sessionsOpen, now,
                   started_at, result, args>>

-----------------------------------------------------------------------------
(* automation.run_automation, which telegram_notification.main calls (line   *)
(* 125) and src/automation.py does not define: the Orchestrator of the       *)
(* specification, sections 4.6, 5 and 9.  It runs the steps of main between  *)
(* two readings of the clock, in a session it releases on every exit path,   *)
(* and returns the spots with the two timestamps and their difference.       *)

\* The result with the elapsed time taken the wrong way round.
run_result_reversed(spots, started, finished) ==
    [set |-> TRUE, spots |-> spots, started_at |-> started,
     finished_at |-> finished, elapsed_seconds |-> started - finished]

run_result(spots, started, finished) ==
    [set |-> TRUE, spots |-> spots, started_at |-> started,
     finished_at |-> finished, elapsed_seconds |-> finished - started]

RunAutomationStart ==
    /\ entry = "telegram"
    /\ pc = "run_automation"
    /\ started_at' = now
    /\ sessionsAcquired' = sessionsAcquired + 1
    /\ sessionsOpen' = sessionsOpen + 1
    /\ pc' = "fetch_schedule"
    /\ UNCHANGED <<entry, outcome, holidayCalendar, start_dt, day_classification,
                   page, aggregated_results, schedule, idx, filtered,
                   filtered_events, evIdx, payload, spotIdx, available_spots,
                   all_spots, gets, posts, stdout, now, result, args>>

RunAutomationReturn ==
    /\ entry = "telegram"
    /\ pc = "collected"
    /\ result' = run_result(all_spots, started_at, now)
    /\ sessionsOpen' = sessionsOpen - 1
    /\ pc' = "report"
    /\ UNCHANGED <<entry, outcome, holidayCalendar, start_dt, day_classification,
                   page, aggregated_results, schedule, idx, filtered,
                   filtered_events, evIdx, payload, spotIdx, available_spots,
                   all_spots, gets, posts, stdout, sessionsAcquired, now,
                   started_at, args>>

-----------------------------------------------------------------------------
(* telegram_notification.main and send_telegram_message *)

\* What --token / --chat-id may hold (None: the flag is not given) and what the
\* environment variable may hold (None: it is not set).
FlagValues == {None, "", "flag"}
EnvValues == {None, "", "env"}

Falsy(v) == v \in {None, ""}

\* Python's a or b
Or(a, b) == IF Falsy(a) THEN b ELSE a

\* Lines 122-123: args.token or os.environ.get(...)
resolve(flag, env) == Or(flag, env)

\* Lines 120-123: the command line is parsed and the token and chat id resolved.
TgParseArgs ==
    /\ entry = "telegram"
    /\ pc = "start"
    /\ \E dry \in BOOLEAN, ft \in FlagValues, et \in EnvValues,
          fc \in FlagValues, ec \in EnvValues :
        args' = [set |-> TRUE, dry_run |-> dry, token |-> resolve(ft, et),
                 chat_id |-> resolve(fc, ec)]
    /\ pc' = "run_automation"
    /\ UNCHANGED <<entry, outcome, holidayCalendar, start_dt, day_classification,
                   page, aggregated_results, schedule, idx, filtered,
                   filtered_events, evIdx, payload, spotIdx, available_spots,
                   all_spots, gets, posts, stdout, sessionsAcquired,
                   sessionsOpen, now, started_at, result>>

\* Lines 126-144 in dry-run mode: the message, a blank line and the execution
\* report are printed, and main returns.  (The report is also appended to the
\* file GITHUB_STEP_SUMMARY names, when it is set; the model keeps no files.)
TgDryRun ==
    /\ entry = "telegram"
    /\ pc = "report"
    /\ args.dry_run
    /\ stdout' = stdout \o <<Line("message", result.spots), Line("blank", <<>>),
                             Line("report", <<>>)>>
    /\ pc' = "done"
    /\ UNCHANGED <<entry, outcome, holidayCalendar, start_dt, day_classification,
                   page, aggregated_results, schedule, idx, filtered,
                   filtered_events, evIdx, payload, spotIdx, available_spots,
                   all_spots, gets, posts, sessionsAcquired, sessionsOpen, now,
                   started_at, result, args>>

\* send_telegram_message without the two tests of lines 60-63.
config_error_none(token, chat_id) == "none"

\* send_telegram_message, lines 60-63: the ValueError raised, or "none".
config_error(token, chat_id) ==
    IF Falsy(token) THEN "ValueError(token)"
    ELSE IF Falsy(chat_id) THEN "ValueError(chat_id)"
    ELSE "none"

\* Lines 146-147 and send_telegram_message (lines 51-82), called without a
\* session: a session of its own is created, the message posted, and the
\* session closed only when the post succeeded.
TgSend ==
    /\ entry = "telegram"
    /\ pc = "report"
    /\ ~args.dry_run
    /\ LET token == Or(args.token, "")
           chat_id == Or(args.chat_id, "")
           err == config_error(token, chat_id)
       IN IF err # "none"
          THEN /\ outcome' = err
               /\ pc' = "aborted"
               /\ UNCHANGED <<posts, sessionsAcquired, sessionsOpen, stdout>>
          ELSE /\ sessionsAcquired' = sessionsAcquired + 1
               /\ posts' = Append(posts, [token |-> token, chat_id |-> chat_id,
                                           text |-> Line("message", result.spots)])
               /\ \E status \in {"ok", "error"} :
                    IF status = "error"
                    THEN /\ outcome' = "HTTPError"
                         /\ pc' = "aborted"
                         /\ sessionsOpen' = sessionsOpen + 1
                         /\ UNCHANGED stdout
                    ELSE /\ outcome' = outcome
                         /\ pc' = "done"
                         /\ sessionsOpen' = sessionsOpen
                         /\ stdout' = Append(stdout, Line("report", <<>>))
    /\ UNCHANGED <<entry, holidayCalendar, start_dt, day_classification, page,
                   aggregated_results, schedule, idx, filtered, filtered_events,
                   evIdx, payload, spotIdx, available_spots, all_spots, gets,
                   now, started_at, result, args>>

-----------------------------------------------------------------------------
(* The two scripts *)

MaxPageLen == 1
MaxDetailSpots == 1

Tokens == {1, 2}

Sunday == [date |-> Date(2025, 11, 16), time |-> Time(10, 0, 0)]

\* Entries a schedule page may hold: one the filter keeps, one of another
\* instructor, one whose start_time does not parse; each under either token.
PipelineEntries ==
    {RawEntry(DefaultInstructorId, None, StartIso(Sunday.date, Sunday.time), t) : t \in Tokens}
    \cup {RawEntry(999, None, StartIso(Sunday.date, Sunday.time), t) : t \in Tokens}
    \cup {RawEntry(DefaultInstructorId, None, StartText, t) : t \in Tokens}

PipelineSpots == {MapSpot(1, "empty", "false"), MapSpot(2, "booked", "false")}

Init ==
    /\ entry \in Scripts
    /\ pc = "start"
    /\ holidayCalendar = BRHolidays
    /\ start_dt = NoDatetime
    /\ schedule = Unset
    /\ payload = Unset
    /\ Idle

Next ==
    \/ MainStart
    \/ TgParseArgs
    \/ RunAutomationStart
    \/ FetchPage(ScheduleResponses(PipelineEntries, MaxPageLen))
    \/ FetchReturn
    \/ FilterStep
    \/ FilterReturn
    \/ CollectFetch(PipelineSpots, MaxDetailSpots)
    \/ ExtractStep
    \/ ExtractReturn
    \/ CollectReturn
    \/ MainPrint
    \/ RunAutomationReturn
    \/ TgDryRun
    \/ TgSend

Spec == Init /\ [][Next]_vars

-----------------------------------------------------------------------------
(* filter_events called alone on any sequence of entries, each with a token  *)
(* of its own.                                                               *)

MaxEvents == 2

Friday == Date(2025, 11, 14)
HolidayThursday == Date(2025, 11, 20)

FilterStarts ==
    {StartAbsent, StartNull, StartEmpty, StartText,
     StartIso(Date(2025, 11, 31), Time(19, 30, 0))}
    \cup {StartIso(d, t) : d \in {Friday, Sunday.date, HolidayThursday},
                           t \in {Time(18, 59, 59), Time(19, 0, 0), Time(19, 0, 1)}}

\* The entries but for their tokens; the entry at position i has token i.
FilterShapes ==
    [instructor : {DefaultInstructorId, 999},
     closed_at : {None, "2025-11-01T12:00:00-03:00"},
     start_time : FilterStarts]

FilterInputs ==
    {[i \in DOMAIN s |->
        RawEntry(s[i].instructor, s[i].closed_at, s[i].start_time, i)] :
     s \in SeqsUpTo(FilterShapes, MaxEvents)}

InitFilter ==
    /\ entry = "filter_events"
    /\ pc = "filter"
    /\ holidayCalendar = BRHolidays
    /\ start_dt = NoDatetime
    /\ schedule \in {Some(s) : s \in FilterInputs}
    /\ payload = Unset
    /\ Idle

NextFilter == FilterStep \/ FilterReturn

SpecFilter == InitFilter /\ [][NextFilter]_vars

-----------------------------------------------------------------------------
(* extract_available_spots called alone on any event detail *)

MaxSpots == 2

ExtractSpots ==
    [code : {1, 2}, bookings : {"absent", "empty", "booked"},
     maintenance : {"absent", "false", "true"}]

InitExtract ==
    /\ entry = "extract_available_spots"
    /\ pc = "extract"
    /\ holidayCalendar = BRHolidays
    /\ start_dt = NoDatetime
    /\ schedule = Unset
    /\ payload \in {Some(EventDetail(1, m)) : m \in SeqsUpTo(ExtractSpots, MaxSpots)}
    /\ Idle

NextExtract == ExtractStep \/ ExtractReturn

SpecExtract == InitExtract /\ [][NextExtract]_vars

-----------------------------------------------------------------------------
(* Properties of classify_event_day, under SpecClassify *)

\* The Saturday and the Sunday of ClassifyDates, by the calendar.
SaturdayOrSunday(d) == d \in {Date(2026, 1, 3), Date(2026, 1, 4)}

InCalendar(d) == d \in holidayCalendar[d.year]

\* C4: classify_event_day returns holiday whenever the date is in the holiday
\* set of the date's year, a Saturday or Sunday included; it returns weekend
\* only for a Saturday or Sunday that is no holiday, and weekday only for a
\* Monday to Friday that is no holiday.
C4_HolidayTakesPrecedence ==
    pc = "done" =>
        LET d == start_dt.date IN
        /\ InCalendar(d) => day_classification = "feriado"
        /\ day_classification = "final_de_semana" => ~InCalendar(d) /\ SaturdayOrSunday(d)
        /\ day_classification = "dia_de_semana" => ~InCalendar(d) /\ ~SaturdayOrSunday(d)
        /\ day_classification \in {"feriado", "final_de_semana", "dia_de_semana"}

\* A Saturday that is a holiday has been classified as a holiday.
C4_Witness ==
    /\ pc = "done"
    /\ start_dt.date = Date(2026, 1, 3)
    /\ InCalendar(start_dt.date)
    /\ day_classification = "feriado"

-----------------------------------------------------------------------------
(* Properties of filter_events, under SpecFilter *)

RawEvents == schedule.val

\* The entries the loop has taken so far.
Processed == 1..idx

\* Entry i has an event in the list (the entries' tokens are distinct).
Included(i) == \E j \in DOMAIN filtered : filtered[j].token = RawEvents[i].token

TargetInstructor(e) == e.instructor = 525
Open(e) == e.closed_at = None

\* The start_time values of FilterStarts that are timestamps.
Timestamps ==
    {StartIso(d, t) : d \in {Friday, Sunday.date, HolidayThursday},
                      t \in {Time(18, 59, 59), Time(19, 0, 0), Time(19, 0, 1)}}

Parseable(e) == e.start_time \in Timestamps
MissingStart(e) == e.start_time \in {StartAbsent, StartNull, StartEmpty}
Unparseable(e) == ~Parseable(e) /\ ~MissingStart(e)

SecondsOfDay(t) == t.hour * 3600 + t.minute * 60 + t.second

DayOf(e) == classify_event_day([date |-> e.start_time.date, time |-> e.start_time.time])

\* C1: an entry that passes the instructor and closed_at checks and whose
\* start_time parses is included, on a weekday, iff its time of day is
\* strictly after 19:00:00, and on a weekend or holiday at any time of day.
C1_WeekdayEveningRule ==
    \A i \in Processed :
        LET e == RawEvents[i] IN
        (TargetInstructor(e) /\ Open(e) /\ Parseable(e)) =>
            /\ DayOf(e) = "dia_de_semana" =>
                  (Included(i) <=> SecondsOfDay(e.start_time.time) > 19 * 3600)
            /\ DayOf(e) \in {"final_de_semana", "feriado"} => Included(i)

\* A Friday entry at 19:00:00 was dropped and one at 19:00:01 was kept.
C1_Witness ==
    /\ pc = "done"
    /\ Len(RawEvents) = 2
    /\ \A i \in 1..2 : TargetInstructor(RawEvents[i]) /\ Open(RawEvents[i])
    /\ RawEvents[1].start_time = StartIso(Friday, Time(19, 0, 0))
    /\ RawEvents[2].start_time = StartIso(Friday, Time(19, 0, 1))
    /\ ~Included(1)
    /\ Included(2)

\* C2: every event of the output comes from an entry of the target instructor
\* with closed_at null; an entry with closed_at set, or of another
\* instructor, is excluded whatever its other fields.
C2_InstructorAndOpenOnly ==
    /\ \A j \in DOMAIN filtered :
          \E i \in Processed :
              /\ RawEvents[i].token = filtered[j].token
              /\ TargetInstructor(RawEvents[i])
              /\ Open(RawEvents[i])
    /\ \A i \in Processed :
          (~Open(RawEvents[i]) \/ ~TargetInstructor(RawEvents[i])) => ~Included(i)

\* A closed Sunday entry of the target instructor was dropped, and an open one
\* was kept.
C2_Witness ==
    /\ pc = "done"
    /\ Len(RawEvents) = 2
    /\ \A i \in 1..2 :
          /\ TargetInstructor(RawEvents[i])
          /\ RawEvents[i].start_time = StartIso(Sunday.date, Time(19, 0, 1))
    /\ ~Open(RawEvents[1])
    /\ Open(RawEvents[2])
    /\ ~Included(1)
    /\ Included(2)

\* C3: of the entries that pass the instructor and closed_at checks, one
\* whose start_time is missing, null or empty is skipped without error and
\* the loop goes on; one whose start_time is present and does not parse
\* raises: the run stops at that entry and no list is returned.
C3_MissingSkippedUnparseableRaises ==
    /\ \A i \in Processed :
          LET e == RawEvents[i] IN
          (TargetInstructor(e) /\ Open(e)) =>
              /\ MissingStart(e) => ~Included(i) /\ ~(pc = "aborted" /\ idx = i)
              /\ Unparseable(e) =>
                    /\ pc = "aborted"
                    /\ outcome = "ValueError"
                    /\ idx = i
                    /\ filtered_events = Unset
    /\ pc = "aborted" =>
          LET e == RawEvents[idx] IN TargetInstructor(e) /\ Open(e) /\ Unparseable(e)
    /\ pc = "done" =>
          /\ idx = Len(RawEvents)
          /\ outcome = "none"
          /\ filtered_events = Some(filtered)
    /\ pc \in {"filter", "done", "aborted"}

\* An entry with a null start_time was skipped, the loop went on, and the next
\* entry, whose start_time is the 31st of November, stopped the run.
C3_Witness ==
    /\ pc = "aborted"
    /\ idx = 2
    /\ \A i \in 1..2 : TargetInstructor(RawEvents[i]) /\ Open(RawEvents[i])
    /\ RawEvents[1].start_time = StartNull
    /\ RawEvents[2].start_time = StartIso(Date(2025, 11, 31), Time(19, 30, 0))
    /\ filtered_events = Unset

-----------------------------------------------------------------------------
(* Properties of extract_available_spots, under SpecExtract *)

MapSpots == payload.val.map_spots

Free(spot) ==
    /\ spot.bookings \in {"absent", "empty"}
    /\ spot.maintenance \in {"absent", "false"}

\* The spots of the first n map spots that are free, in their order.
FreeAmong(n) ==
    LET free == SelectSeq(SubSeq(MapSpots, 1, n), Free)
    IN [k \in DOMAIN free |-> [token |-> payload.val.token, spot_code |-> free[k].code,
                               event_name |-> payload.val.name]]

\* C5: extract_available_spots returns exactly the map spots whose bookings
\* are empty and whose maintenance flag is false, in input order; a spot with
\* a booking, or under maintenance with no booking, yields nothing, and no
\* spot raises.
C5_FreeSpotsInOrder ==
    /\ available_spots = FreeAmong(spotIdx)
    /\ outcome = "none"
    /\ pc \in {"extract", "done"}
    /\ pc = "done" => spotIdx = Len(MapSpots)

\* A spot under maintenance with no booking was dropped and the free spot
\* after it was returned.
C5_Witness ==
    /\ pc = "done"
    /\ Len(MapSpots) = 2
    /\ MapSpots[1] = MapSpot(1, "empty", "true")
    /\ MapSpots[2] = MapSpot(2, "empty", "false")
    /\ Len(available_spots) = 1
    /\ available_spots[1].spot_code = 2

-----------------------------------------------------------------------------
(* Properties of the two scripts, under Spec *)

TokensOf(events) == [k \in DOMAIN events |-> events[k].token]

EventGets == SelectSeq(gets, LAMBDA g : g.url = "event")

\* The tokens passed to fetch_event_details, in the order of the calls.
FetchedTokens == TokensOf([k \in DOMAIN EventGets |-> [token |-> EventGets[k].key]])

Range(f) == {f[k] : k \in DOMAIN f}

\* collect_available_spots has returned: no fetch failed.
Collected == pc \in {"collected", "report", "done"} \/ (pc = "aborted" /\ result.set)

\* C6 as claimed: once every detail is fetched, the fetched tokens are the
\* tokens of the filter's output, in its order, and no token is fetched twice.
C6_NoTokenFetchedTwice ==
    Collected =>
        /\ Range(FetchedTokens) = Range(TokensOf(filtered_events.val))
        /\ Cardinality(Range(FetchedTokens)) = Len(FetchedTokens)

\* C6, amended: once every detail is fetched, the sequence of fetched tokens
\* is the sequence of tokens of the filter's output: each filtered event is
\* fetched exactly once, in filtered order, and nothing else is fetched.  While
\* the loop runs, the fetched tokens are the tokens of the events taken so far.
C6_EachFilteredEventFetchedOnce ==
    /\ Collected => FetchedTokens = TokensOf(filtered_events.val)
    /\ pc \in {"collect", "extract"} =>
          FetchedTokens = TokensOf(SubSeq(filtered_events.val, 1, evIdx))

\* Two events with different tokens survived the filter and each was fetched
\* once, in order.
C6_Witness ==
    /\ pc = "collected"
    /\ Len(filtered_events.val) = 2
    /\ filtered_events.val[1].token = 2
    /\ filtered_events.val[2].token = 1
    /\ FetchedTokens = <<2, 1>>

\* C7: when a schedule or event GET returns a non-success status, the run
\* aborts at that call: that GET is the last one issued (no retry, nothing
\* after it), nothing is printed, no result is returned and nothing is posted.
C7_FetchFailureAbortsRun ==
    \A k \in DOMAIN gets :
        gets[k].status = "error" =>
            /\ k = Len(gets)
            /\ pc = "aborted"
            /\ outcome = "HTTPError"
            /\ stdout = <<>>
            /\ ~result.set
            /\ posts = <<>>

\* The second event's GET failed after the first event's spots were
\* extracted: the run is over and the spots were not printed.
C7_Witness ==
    /\ pc = "aborted"
    /\ Len(gets) = 4
    /\ gets[4].url = "event"
    /\ gets[4].status = "error"
    /\ all_spots # <<>>
    /\ stdout = <<>>

Terminal == pc \in {"done", "aborted"}

\* C8: in every terminal state of a run one session has been acquired and it
\* is closed.
C8_SessionClosedOnEveryExit ==
    Terminal => sessionsAcquired = 1 /\ sessionsOpen = 0

ConfigErrors == {"ValueError(token)", "ValueError(chat_id)"}

\* main has reached lines 140-146 and has returned or raised from there.
DeliveryOver == result.set /\ Terminal

\* C9: not in dry-run mode, with the resolved bot token or chat id absent,
\* delivery fails with a configuration error and nothing is posted; in
\* dry-run mode nothing is ever posted and no configuration error is raised,
\* whatever the token and chat id.
C9_ConfigurationError ==
    (entry = "telegram" /\ args.set) =>
        /\ args.dry_run =>
              /\ posts = <<>>
              /\ outcome \notin ConfigErrors
              /\ DeliveryOver => pc = "done"
        /\ (~args.dry_run /\ (Falsy(args.token) \/ Falsy(args.chat_id))) =>
              /\ posts = <<>>
              /\ DeliveryOver => pc = "aborted" /\ outcome \in ConfigErrors

\* With a token and no chat id, not in dry-run mode, delivery has failed with
\* the configuration error and nothing was posted.
C9_Witness ==
    /\ entry = "telegram"
    /\ ~args.dry_run
    /\ args.token = "env"
    /\ args.chat_id = None
    /\ DeliveryOver
    /\ outcome = "ValueError(chat_id)"
    /\ posts = <<>>

\* C10: run_automation reads the clock before the schedule fetch and after the
\* last extraction, and returns the spots with the two timestamps and the
\* elapsed time, their non-negative difference; every run that gets to the
\* report has such a result.
C10_ResultCarriesTiming ==
    /\ result.set =>
          /\ result.spots = all_spots
          /\ result.elapsed_seconds = result.finished_at - result.started_at
          /\ result.elapsed_seconds >= 0
          /\ \A k \in DOMAIN gets :
                result.started_at < gets[k].at /\ gets[k].at <= result.finished_at
    /\ (entry = "telegram" /\ (pc = "report" \/ (pc = "done"))) => result.set

\* A run with two events fetched has returned its spots and its timing.
C10_Witness ==
    /\ pc = "report"
    /\ result.set
    /\ Len(gets) = 4
    /\ Len(result.spots) = 2
    /\ result.elapsed_seconds = 4

=============================================================================
